---- MODULE Spec2Model ----
(***************************************************************************)
(* Model of src/bot.py: the per-guild MusicPlayer (queue, cursor, voice    *)
(* client, asyncio lock), the players registry and the command coroutines  *)
(* that drive it.                                                          *)
(*                                                                         *)
(* Scheduling.  The commands and the _play_next coroutines scheduled by    *)
(* after_playback are asyncio tasks of one event loop: a task runs without *)
(* interruption up to an await that really suspends (a contended           *)
(* lock.acquire(), channel.connect(), move_to(), disconnect(),             *)
(* extract_info()).  One action of the model is one such uninterrupted     *)
(* run.  Awaiting a coroutine of the program itself (self._play_next(),    *)
(* self.stop(), player.add_track()) does not suspend.  The audio player    *)
(* runs in a thread of its own: the end of a stream (StreamEnds) can fall  *)
(* between any two runs.                                                   *)
(*                                                                         *)
(* One guild is modelled.  A MusicPlayer that is neither registered nor     *)
(* referenced by a task or a scheduled callback is garbage: its number is   *)
(* given to the next MusicPlayer constructed.                               *)
(***************************************************************************)
EXTENDS Integers, Sequences, FiniteSets, TLC

\* ---------------------------------------------------------------- bounds
MaxTasks == 2        \* coroutines in flight at the same time
MaxPlayers == 2      \* MusicPlayer objects alive (registered or referenced) at a time
MaxQueue == 4        \* entries a queue may hold

Tasks == 1..MaxTasks
Ctl == 1..MaxPlayers
Channels == {"a", "b"}
Infos == {"x", "y"}

VARIABLES
    players,        \* players[guild]: the registered controller, 0 = absent
    queue,          \* queue[p]: self.queue
    current_index,  \* current_index[p]: self.current_index
    voice_client,   \* voice_client[p]: self.voice_client (NoVC = None)
    lock_holder,    \* lock_holder[p]: task holding self.lock, 0 = unlocked
    lock_waiters,   \* lock_waiters[p]: tasks suspended in self.lock.acquire()
    pending,        \* pending[p]: after_playback calls whose _play_next has not started
    pc,             \* pc[t]: where task t is suspended ("idle" = slot free)
    tp,             \* tp[t]: the controller task t works on (its `player`/`self`)
    tch,            \* tch[t]: the channel task t is moving to
    ev              \* what the last run did (observation only, never read by the code)

vars == <<players, queue, current_index, voice_client, lock_holder,
          lock_waiters, pending, pc, tp, tch, ev>>

\* ---------------------------------------------------------------- voice client
\* self.voice_client = None
NoVC == [some |-> FALSE, connected |-> FALSE, channel |-> "none", st |-> "idle"]
\* the VoiceClient channel.connect() returns
NewVC(ch) == [some |-> TRUE, connected |-> TRUE, channel |-> ch, st |-> "idle"]

is_connected(v) == v.connected
is_playing(v) == v.st = "playing"
is_paused(v) == v.st = "paused"

\* VoiceClient.stop(): ends the current stream; the player thread of a stream
\* that was playing or paused then calls its after callback once.
Signals(v) == IF v.st \in {"playing", "paused"} THEN 1 ELSE 0
vc_stop(v) == [v EXCEPT !.st = "idle"]
\* VoiceClient.disconnect(), up to its suspension: stops the stream and drops
\* the connection.
vc_disconnect(v) == [v EXCEPT !.st = "idle", !.connected = FALSE]

\* create_audio_source(info): the source is built from the info's url
create_audio_source(info) == info
Entry(info) == [info |-> info, source |-> create_audio_source(info)]

\* ---------------------------------------------------------------- lock
\* asyncio.Lock: acquire() returns at once when the lock is free and nobody
\* waits; release() hands the lock to the first waiter (FIFO).
LockFree(p) == lock_holder[p] = 0 /\ lock_waiters[p] = <<>>
\* t was woken with the lock: it holds it and is no longer queued
Granted(t, p) == lock_holder[p] = t /\ \A i \in 1..Len(lock_waiters[p]) : lock_waiters[p][i] # t
HolderAfterRelease(p) == IF lock_waiters[p] = <<>> THEN 0 ELSE Head(lock_waiters[p])
WaitersAfterRelease(p) == IF lock_waiters[p] = <<>> THEN <<>> ELSE Tail(lock_waiters[p])

\* ---------------------------------------------------------------- observation
\* op: the run; p: its controller; start: the index handed to voice_client.play()
\* (-1: no play() accepted); stop: voice_client.stop()/disconnect() was called;
\* res: how the run ended.
NoEv == [op |-> "none", p |-> 0, start |-> -1, stop |-> FALSE, res |-> "ok"]
Ev(op, p, start, stop, res) == [op |-> op, p |-> p, start |-> start, stop |-> stop, res |-> res]

\* ---------------------------------------------------------------- initial states
\* Module load: players = {} (line 216), no MusicPlayer, no task.
Init ==
    /\ players = 0
    /\ queue = [p \in Ctl |-> <<>>]
    /\ current_index = [p \in Ctl |-> -1]
    /\ voice_client = [p \in Ctl |-> NoVC]
    /\ lock_holder = [p \in Ctl |-> 0]
    /\ lock_waiters = [p \in Ctl |-> <<>>]
    /\ pending = [p \in Ctl |-> 0]
    /\ pc = [t \in Tasks |-> "idle"]
    /\ tp = [t \in Tasks |-> 0]
    /\ tch = [t \in Tasks |-> "none"]
    /\ ev = NoEv

\* ---------------------------------------------------------------- tasks
\* A new coroutine takes the lowest free slot (slots are interchangeable).
Fresh(t) == pc[t] = "idle" /\ \A u \in Tasks : u < t => pc[u] # "idle"
TaskDone(t) ==
    /\ pc' = [pc EXCEPT ![t] = "idle"]
    /\ tp' = [tp EXCEPT ![t] = 0]
    /\ tch' = [tch EXCEPT ![t] = "none"]
TaskAt(t, label, p, ch) ==
    /\ pc' = [pc EXCEPT ![t] = label]
    /\ tp' = [tp EXCEPT ![t] = p]
    /\ tch' = [tch EXCEPT ![t] = ch]
Release(p) ==
    /\ lock_holder' = [lock_holder EXCEPT ![p] = HolderAfterRelease(p)]
    /\ lock_waiters' = [lock_waiters EXCEPT ![p] = WaitersAfterRelease(p)]
Enqueue(t, p) ==
    /\ lock_waiters' = [lock_waiters EXCEPT ![p] = Append(@, t)]
    /\ UNCHANGED lock_holder

\* ---------------------------------------------------------------- registry
\* nothing refers to controller p any more
Unreferenced(p) == players # p /\ pending[p] = 0 /\ \A t \in Tasks : tp[t] # p
\* get_player: the registered controller, or a newly constructed one
CanGetPlayer == players # 0 \/ \E p \in Ctl : Unreferenced(p)
get_player ==
    IF players # 0 THEN players
    ELSE CHOOSE p \in Ctl : Unreferenced(p) /\ \A q \in Ctl : Unreferenced(q) => p <= q
\* MusicPlayer.__init__ (lines 119-122) when the guild has no controller
Registered ==
    /\ players' = get_player
    /\ IF players # 0
       THEN UNCHANGED <<queue, current_index, voice_client, lock_holder, lock_waiters>>
       ELSE /\ queue' = [queue EXCEPT ![get_player] = <<>>]
            /\ current_index' = [current_index EXCEPT ![get_player] = -1]
            /\ voice_client' = [voice_client EXCEPT ![get_player] = NoVC]
            /\ lock_holder' = [lock_holder EXCEPT ![get_player] = 0]
            /\ lock_waiters' = [lock_waiters EXCEPT ![get_player] = <<>>]
\* the voice client and the queue length the command finds on get_player's result
FoundVC == IF players # 0 THEN voice_client[players] ELSE NoVC
FoundLen == IF players # 0 THEN Len(queue[players]) ELSE 0

\* ---------------------------------------------------------------- connect
\* MusicPlayer.connect up to its first suspension, called by command cmd
\* ("join" or "play").  When connect returns without suspending, join is
\* done and play goes on to extract_info, where it suspends.
ConnectBegin(t, p, v, ch, cmd) ==
    IF v.some /\ is_connected(v)
    THEN IF v.channel # ch
         THEN /\ TaskAt(t, IF cmd = "play" THEN "play_move" ELSE "join_move", p, ch)
              /\ ev' = Ev("Connect", p, -1, FALSE, "suspended")
         ELSE /\ IF cmd = "play" THEN TaskAt(t, "play_extract", p, "none")
                                 ELSE TaskDone(t)
              /\ ev' = Ev("Connect", p, -1, FALSE, "noop")
    ELSE /\ TaskAt(t, IF cmd = "play" THEN "play_connect" ELSE "join_connect", p, "none")
         /\ ev' = Ev("Connect", p, -1, FALSE, "suspended")

\* !join
JoinCmd(t, ch) ==
    /\ Fresh(t)
    /\ CanGetPlayer
    /\ Registered
    /\ ConnectBegin(t, get_player, FoundVC, ch, "join")
    /\ UNCHANGED pending

\* play commands of controller p that have not appended their track yet
Adding(p) == {u \in Tasks : tp[u] = p /\ pc[u] \in {"play_connect", "play_move", "play_extract", "add_wait"}}

\* !play, up to the first suspension (in connect or in extract_info)
PlayCmd(t, ch) ==
    /\ Fresh(t)
    /\ CanGetPlayer
    /\ FoundLen + Cardinality(Adding(players)) < MaxQueue
    /\ Registered
    /\ ConnectBegin(t, get_player, FoundVC, ch, "play")
    /\ UNCHANGED pending

\* line 130 assigning a dead client when channel.connect() raises
ConnectDoneAssigningOnError(t, ch) ==
    /\ pc[t] \in {"join_connect", "play_connect"}
    /\ \E ok \in BOOLEAN :
        IF ok
        THEN /\ voice_client' = [voice_client EXCEPT ![tp[t]] = NewVC(ch)]
             /\ IF pc[t] = "play_connect"
                THEN TaskAt(t, "play_extract", tp[t], "none")
                ELSE TaskDone(t)
             /\ ev' = Ev("Connect", tp[t], -1, FALSE, "ok")
        ELSE /\ voice_client' = [voice_client EXCEPT ![tp[t]] = [NewVC(ch) EXCEPT !.connected = FALSE]]
             /\ TaskDone(t)
             /\ ev' = Ev("Connect", tp[t], -1, FALSE, "error")
    /\ UNCHANGED <<players, queue, current_index, lock_holder, lock_waiters, pending>>

\* channel.connect() returns (line 130) or raises; ch is the channel the
\* command was given (nothing reads it before)
ConnectDone(t, ch) ==
    /\ pc[t] \in {"join_connect", "play_connect"}
    /\ \E ok \in BOOLEAN :
        IF ok
        THEN /\ voice_client' = [voice_client EXCEPT ![tp[t]] = NewVC(ch)]
             /\ IF pc[t] = "play_connect"
                THEN TaskAt(t, "play_extract", tp[t], "none")
                ELSE TaskDone(t)
             /\ ev' = Ev("Connect", tp[t], -1, FALSE, "ok")
        ELSE /\ UNCHANGED voice_client
             /\ TaskDone(t)
             /\ ev' = Ev("Connect", tp[t], -1, FALSE, "error")
    /\ UNCHANGED <<players, queue, current_index, lock_holder, lock_waiters, pending>>

\* voice_client.move_to() returns (line 128) or raises
MoveDone(t) ==
    /\ pc[t] \in {"join_move", "play_move"}
    /\ \E ok \in BOOLEAN :
        IF ok
        THEN /\ voice_client' = [voice_client EXCEPT ![tp[t]] =
                    IF is_connected(@) THEN [@ EXCEPT !.channel = tch[t]] ELSE @]
             /\ IF pc[t] = "play_move"
                THEN TaskAt(t, "play_extract", tp[t], "none")
                ELSE TaskDone(t)
             /\ ev' = Ev("Connect", tp[t], -1, FALSE, "ok")
        ELSE /\ UNCHANGED voice_client
             /\ TaskDone(t)
             /\ ev' = Ev("Connect", tp[t], -1, FALSE, "error")
    /\ UNCHANGED <<players, queue, current_index, lock_holder, lock_waiters, pending>>

\* ---------------------------------------------------------------- add_track
\* extract_info raised: play reports it and returns (lines 266-268)
ExtractFails(t) ==
    /\ pc[t] = "play_extract"
    /\ TaskDone(t)
    /\ ev' = Ev("Extract", tp[t], -1, FALSE, "error")
    /\ UNCHANGED <<players, queue, current_index, voice_client, lock_holder,
                   lock_waiters, pending>>

\* line 138 without its is_paused() test
NotPlaying(v) == ~is_playing(v)
\* line 138: nothing is currently playing
NothingPlaying(v) == ~is_playing(v) /\ ~is_paused(v)

\* add_track with the lock held by t (lines 135-139).  With no voice client
\* line 138 raises AttributeError; with an idle one line 139 awaits
\* _play_next, whose lock.acquire() queues t behind the holder, t itself.
AddTrackBody(t, p, info) ==
    LET v == voice_client[p] IN
    /\ queue' = [queue EXCEPT ![p] = Append(@, Entry(info))]
    /\ IF ~v.some
       THEN /\ Release(p)
            /\ TaskDone(t)
            /\ ev' = Ev("AddTrack", p, -1, FALSE, "error")
       ELSE IF ~NothingPlaying(v)
       THEN /\ Release(p)
            /\ TaskDone(t)
            /\ ev' = Ev("AddTrack", p, -1, FALSE, "ok")
       ELSE /\ lock_holder' = [lock_holder EXCEPT ![p] = t]
            /\ lock_waiters' = [lock_waiters EXCEPT ![p] = Append(@, t)]
            /\ TaskAt(t, "add_pn", p, "none")
            /\ ev' = Ev("AddTrack", p, -1, FALSE, "blocked")
    /\ UNCHANGED <<players, current_index, voice_client, pending>>

\* extract_info returned info and the lock is free: add_track runs at once
AddTrack(t, info) ==
    /\ pc[t] = "play_extract"
    /\ LockFree(tp[t])
    /\ AddTrackBody(t, tp[t], info)

\* extract_info returned info and the lock is taken: add_track suspends (line 134)
AddTrackWait(t, info) ==
    /\ pc[t] = "play_extract"
    /\ ~LockFree(tp[t])
    /\ Enqueue(t, tp[t])
    /\ TaskAt(t, "add_wait", tp[t], "none")
    /\ ev' = Ev("AddTrack", tp[t], -1, FALSE, "waiting")
    /\ UNCHANGED <<players, queue, current_index, voice_client, pending>>

\* add_track resumes with the lock; info is what extract_info had returned
AddTrackResume(t, info) ==
    /\ pc[t] = "add_wait"
    /\ Granted(t, tp[t])
    /\ AddTrackBody(t, tp[t], info)

\* ---------------------------------------------------------------- stop
\* lines 167-169 without line 168
StopTailKeepingCursor(p) ==
    /\ queue' = [queue EXCEPT ![p] = <<>>]
    /\ voice_client' = [voice_client EXCEPT ![p] = NoVC]
    /\ UNCHANGED current_index
\* MusicPlayer.stop after the disconnect (lines 167-169)
StopTail(p) ==
    /\ queue' = [queue EXCEPT ![p] = <<>>]
    /\ current_index' = [current_index EXCEPT ![p] = -1]
    /\ voice_client' = [voice_client EXCEPT ![p] = NoVC]

\* ---------------------------------------------------------------- _play_next
\* voice_client.play(source, after=...) refuses (raises) without a voice
\* client, when not connected and when already playing
PlayRefused(v) == ~v.some \/ ~is_connected(v) \/ is_playing(v)

\* line 145 with <= for <
InBoundsInclusive(i, n) == 0 <= i /\ i <= n
\* line 144 adding 2
NextIndexByTwo(c) == c + 2
\* line 144 and line 145
NextIndex(c) == c + 1
InBounds(i, n) == 0 <= i /\ i < n

\* _play_next with the lock held by t (lines 144-161), up to the release of
\* the lock or to the suspension of stop() in disconnect().
PlayNextBody(t, p, sig) ==
    LET i == NextIndex(current_index[p])
        v == voice_client[p]
    IN
    IF InBounds(i, Len(queue[p]))
    THEN /\ current_index' = [current_index EXCEPT ![p] = i]
         /\ IF PlayRefused(v)
            THEN /\ UNCHANGED voice_client
                 /\ ev' = Ev("PlayNext", p, -1, FALSE, "error")
            ELSE /\ voice_client' = [voice_client EXCEPT ![p].st = "playing"]
                 /\ ev' = Ev("PlayNext", p, i, FALSE, "ok")
         /\ pending' = [pending EXCEPT ![p] = @ - sig]
         /\ Release(p)
         /\ TaskDone(t)
         /\ UNCHANGED queue
    ELSE IF v.some /\ is_connected(v)
    THEN /\ current_index' = [current_index EXCEPT ![p] = i]
         /\ voice_client' = [voice_client EXCEPT ![p] = vc_disconnect(v)]
         /\ pending' = [pending EXCEPT ![p] = @ - sig + Signals(v)]
         /\ lock_holder' = [lock_holder EXCEPT ![p] = t]
         /\ UNCHANGED lock_waiters
         /\ TaskAt(t, "pn_stop", p, "none")
         /\ ev' = Ev("PlayNext", p, -1, TRUE, "suspended")
         /\ UNCHANGED queue
    ELSE /\ StopTail(p)
         /\ pending' = [pending EXCEPT ![p] = @ - sig]
         /\ Release(p)
         /\ TaskDone(t)
         /\ ev' = Ev("PlayNext", p, -1, FALSE, "stopped")

\* after_playback scheduled _play_next (line 152) and the lock is free
PlayNext(t, p) ==
    /\ Fresh(t)
    /\ pending[p] > 0
    /\ LockFree(p)
    /\ PlayNextBody(t, p, 1)
    /\ UNCHANGED players

\* after_playback scheduled _play_next and the lock is taken (line 143)
PlayNextWait(t, p) ==
    /\ Fresh(t)
    /\ pending[p] > 0
    /\ ~LockFree(p)
    /\ pending' = [pending EXCEPT ![p] = @ - 1]
    /\ Enqueue(t, p)
    /\ TaskAt(t, "pn_wait", p, "none")
    /\ ev' = Ev("PlayNext", p, -1, FALSE, "waiting")
    /\ UNCHANGED <<players, queue, current_index, voice_client>>

\* _play_next resumes with the lock
PlayNextResume(t) ==
    /\ pc[t] = "pn_wait"
    /\ Granted(t, tp[t])
    /\ PlayNextBody(t, tp[t], 0)
    /\ UNCHANGED players

\* disconnect() returns to stop(): inside _play_next (line 161, the lock is
\* released on return) or inside leave (line 249, then players.pop, line 250)
StopDone(t) ==
    /\ pc[t] \in {"pn_stop", "leave_stop"}
    /\ StopTail(tp[t])
    /\ IF pc[t] = "pn_stop"
       THEN /\ Release(tp[t])
            /\ UNCHANGED players
       ELSE /\ players' = 0
            /\ UNCHANGED <<lock_holder, lock_waiters>>
    /\ TaskDone(t)
    /\ ev' = Ev("Stop", tp[t], -1, FALSE, IF pc[t] = "pn_stop" THEN "exhausted" ELSE "left")
    /\ UNCHANGED pending

\* the stream ends by itself (or fails): the player thread calls after_playback
StreamEnds(p) ==
    /\ is_playing(voice_client[p])
    /\ voice_client' = [voice_client EXCEPT ![p].st = "idle"]
    /\ pending' = [pending EXCEPT ![p] = @ + 1]
    /\ ev' = Ev("StreamEnds", p, -1, FALSE, "ok")
    /\ UNCHANGED <<players, queue, current_index, lock_holder, lock_waiters,
                   pc, tp, tch>>

\* ---------------------------------------------------------------- leave
\* !leave, up to the suspension of stop() in disconnect()
LeaveCmd(t) ==
    /\ Fresh(t)
    /\ IF players = 0 \/ ~voice_client[players].some \/ ~is_connected(voice_client[players])
       THEN /\ ev' = Ev("Leave", players, -1, FALSE, "rejected")
            /\ UNCHANGED <<voice_client, pending, pc, tp, tch>>
       ELSE /\ voice_client' = [voice_client EXCEPT ![players] = vc_disconnect(@)]
            /\ pending' = [pending EXCEPT ![players] = @ + Signals(voice_client[players])]
            /\ TaskAt(t, "leave_stop", players, "none")
            /\ ev' = Ev("Leave", players, -1, TRUE, "suspended")
    /\ UNCHANGED <<players, queue, current_index, lock_holder, lock_waiters>>

\* ---------------------------------------------------------------- previous
\* line 189 with >= for >, line 191 with 1 for 2
HasPreviousOrFirst(c) == c >= 0
PreviousIndexByOne(c) == c - 1
\* line 191 subtracting 3
PreviousIndexByThree(c) == c - 3
\* line 189 and line 191
HasPrevious(c) == c > 0
PreviousIndex(c) == c - 2

\* previous with the lock held by t (lines 189-194)
PreviousBody(t, p) ==
    LET v == voice_client[p] IN
    /\ IF HasPrevious(current_index[p])
       THEN /\ current_index' = [current_index EXCEPT ![p] = PreviousIndex(@)]
            /\ IF v.some
               THEN /\ voice_client' = [voice_client EXCEPT ![p] = vc_stop(v)]
                    /\ pending' = [pending EXCEPT ![p] = @ + Signals(v)]
                    /\ ev' = Ev("Previous", p, -1, TRUE, "accepted")
               ELSE /\ UNCHANGED <<voice_client, pending>>
                    /\ ev' = Ev("Previous", p, -1, FALSE, "error")
       ELSE /\ UNCHANGED <<current_index, voice_client, pending>>
            /\ ev' = Ev("Previous", p, -1, FALSE, "rejected")
    /\ Release(p)
    /\ TaskDone(t)
    /\ UNCHANGED <<players, queue>>

\* !prev: not connected (lines 316-318), or previous() with the lock free
PrevCmd(t) ==
    /\ Fresh(t)
    /\ IF players = 0 \/ ~voice_client[players].some
       THEN /\ ev' = Ev("Prev", players, -1, FALSE, "notconnected")
            /\ UNCHANGED <<players, queue, current_index, voice_client,
                           lock_holder, lock_waiters, pending, pc, tp, tch>>
       ELSE /\ LockFree(players)
            /\ PreviousBody(t, players)

\* !prev: previous() suspends, the lock is taken (line 187)
PrevWait(t) ==
    /\ Fresh(t)
    /\ players # 0
    /\ voice_client[players].some
    /\ ~LockFree(players)
    /\ Enqueue(t, players)
    /\ TaskAt(t, "prev_wait", players, "none")
    /\ ev' = Ev("Previous", players, -1, FALSE, "waiting")
    /\ UNCHANGED <<players, queue, current_index, voice_client, pending>>

\* previous resumes with the lock
PrevResume(t) ==
    /\ pc[t] = "prev_wait"
    /\ Granted(t, tp[t])
    /\ PreviousBody(t, tp[t])

\* ---------------------------------------------------------------- skip, pause, resume
\* skip that also advances the cursor itself
skip_advancing(p) ==
    LET v == voice_client[p] IN
    IF v.some /\ (is_playing(v) \/ is_paused(v))
    THEN /\ voice_client' = [voice_client EXCEPT ![p] = vc_stop(v)]
         /\ pending' = [pending EXCEPT ![p] = @ + Signals(v)]
         /\ ev' = Ev("Skip", p, -1, TRUE, "accepted")
         /\ current_index' = [current_index EXCEPT ![p] = NextIndex(@)]
    ELSE /\ UNCHANGED <<voice_client, pending, current_index>>
         /\ ev' = Ev("Skip", p, -1, FALSE, "noop")

\* skip that stops the stream and schedules _play_next itself as well
skip_scheduling(p) ==
    LET v == voice_client[p] IN
    IF v.some /\ (is_playing(v) \/ is_paused(v))
    THEN /\ voice_client' = [voice_client EXCEPT ![p] = vc_stop(v)]
         /\ pending' = [pending EXCEPT ![p] = @ + Signals(v) + 1]
         /\ ev' = Ev("Skip", p, -1, TRUE, "accepted")
         /\ UNCHANGED current_index
    ELSE /\ UNCHANGED <<voice_client, pending, current_index>>
         /\ ev' = Ev("Skip", p, -1, FALSE, "noop")

\* MusicPlayer.skip (lines 182-183)
skip(p) ==
    LET v == voice_client[p] IN
    IF v.some /\ (is_playing(v) \/ is_paused(v))
    THEN /\ voice_client' = [voice_client EXCEPT ![p] = vc_stop(v)]
         /\ pending' = [pending EXCEPT ![p] = @ + Signals(v)]
         /\ ev' = Ev("Skip", p, -1, TRUE, "accepted")
         /\ UNCHANGED current_index
    ELSE /\ UNCHANGED <<voice_client, pending, current_index>>
         /\ ev' = Ev("Skip", p, -1, FALSE, "noop")

\* !skip without the test of line 306
SkipCmdUnchecked ==
    /\ IF players = 0 \/ ~voice_client[players].some
       THEN /\ ev' = Ev("Skip", players, -1, FALSE, "notconnected")
            /\ UNCHANGED <<voice_client, pending, current_index>>
       ELSE skip(players)
    /\ UNCHANGED <<players, queue, lock_holder, lock_waiters, pc, tp, tch>>

\* !skip (lines 302-310): it never suspends before its reply
SkipCmd ==
    /\ IF players = 0 \/ ~voice_client[players].some
       THEN /\ ev' = Ev("Skip", players, -1, FALSE, "notconnected")
            /\ UNCHANGED <<voice_client, pending, current_index>>
       ELSE IF current_index[players] + 1 >= Len(queue[players])
       THEN /\ ev' = Ev("Skip", players, -1, FALSE, "rejected")
            /\ UNCHANGED <<voice_client, pending, current_index>>
       ELSE skip(players)
    /\ UNCHANGED <<players, queue, lock_holder, lock_waiters, pc, tp, tch>>

\* !pause (lines 276-284) with MusicPlayer.pause (lines 172-173)
PauseCmd ==
    /\ IF players = 0 \/ ~voice_client[players].some
       THEN /\ ev' = Ev("Pause", players, -1, FALSE, "notconnected")
            /\ UNCHANGED voice_client
       ELSE IF is_playing(voice_client[players])
       THEN /\ voice_client' = [voice_client EXCEPT ![players].st = "paused"]
            /\ ev' = Ev("Pause", players, -1, FALSE, "accepted")
       ELSE /\ ev' = Ev("Pause", players, -1, FALSE, "noop")
            /\ UNCHANGED voice_client
    /\ UNCHANGED <<players, queue, current_index, lock_holder, lock_waiters,
                   pending, pc, tp, tch>>

\* !resume (lines 289-297) with MusicPlayer.resume (lines 176-177)
ResumeCmd ==
    /\ IF players = 0 \/ ~voice_client[players].some
       THEN /\ ev' = Ev("Resume", players, -1, FALSE, "notconnected")
            /\ UNCHANGED voice_client
       ELSE IF is_paused(voice_client[players])
       THEN /\ voice_client' = [voice_client EXCEPT ![players].st = "playing"]
            /\ ev' = Ev("Resume", players, -1, FALSE, "accepted")
       ELSE /\ ev' = Ev("Resume", players, -1, FALSE, "noop")
            /\ UNCHANGED voice_client
    /\ UNCHANGED <<players, queue, current_index, lock_holder, lock_waiters,
                   pending, pc, tp, tch>>

\* ---------------------------------------------------------------- queue
\* format_queue (lines 198-205): one line per entry, marker, number, title
EmptyMessage == <<[marker |-> "", num |-> 0, title |-> "Queue is empty."]>>
\* line 202 comparing the line number, not the index, with the cursor
format_queue_by_number(p) ==
    IF queue[p] = <<>>
    THEN EmptyMessage
    ELSE [k \in 1..Len(queue[p]) |->
            [marker |-> IF k = current_index[p] THEN "-> " ELSE "   ",
             num |-> (k - 1) + 1,
             title |-> queue[p][k].info]]
format_queue(p) ==
    IF queue[p] = <<>>
    THEN EmptyMessage
    ELSE [k \in 1..Len(queue[p]) |->
            [marker |-> IF k - 1 = current_index[p] THEN "-> " ELSE "   ",
             num |-> (k - 1) + 1,
             title |-> queue[p][k].info]]

\* !queue (lines 327-331): replies with format_queue(players), or with a fixed
\* text when the guild has no controller; it changes nothing
QueueCmd ==
    /\ ev' = IF players = 0
             THEN Ev("Queue", 0, -1, FALSE, "noplayer")
             ELSE Ev("Queue", players, -1, FALSE, "ok")
    /\ UNCHANGED <<players, queue, current_index, voice_client, lock_holder,
                   lock_waiters, pending, pc, tp, tch>>

\* ---------------------------------------------------------------- specifications
\* The runs that can happen from Init.
NextCmd ==
    \/ \E t \in Tasks, ch \in Channels : JoinCmd(t, ch)
    \/ \E t \in Tasks, ch \in Channels : PlayCmd(t, ch)
    \/ \E t \in Tasks, ch \in Channels : ConnectDone(t, ch)
    \/ \E t \in Tasks : MoveDone(t)
    \/ \E t \in Tasks : ExtractFails(t)
    \/ \E t \in Tasks, info \in Infos : AddTrack(t, info)
    \/ \E t \in Tasks, info \in Infos : AddTrackWait(t, info)
    \/ \E t \in Tasks : LeaveCmd(t)
    \/ \E t \in Tasks : StopDone(t)
    \/ \E t \in Tasks : PrevCmd(t)
    \/ \E t \in Tasks : PrevWait(t)
    \/ SkipCmd
    \/ PauseCmd
    \/ ResumeCmd
    \/ QueueCmd

\* The runs that need a stream to have been started, or the lock to be
\* handed to a waiter.
NextRun ==
    \/ \E p \in Ctl : StreamEnds(p)
    \/ \E t \in Tasks, p \in Ctl : PlayNext(t, p)
    \/ \E t \in Tasks, p \in Ctl : PlayNextWait(t, p)
    \/ \E t \in Tasks, info \in Infos : AddTrackResume(t, info)
    \/ \E t \in Tasks : PrevResume(t)

Next == NextCmd \/ NextRun

\* A _play_next that waits for the lock is never handed it: the lock is held
\* across a suspension only by an add_track blocked in line 139, which never
\* releases it, or by a _play_next suspended in stop(), and that one consumed
\* the only completion signal there is.  ResumeDisabled is an invariant of
\* Spec and of Started, so PlayNextResume adds no behaviour to Next.
ResumeDisabled == \A t \in Tasks : ~ENABLED PlayNextResume(t)

\* The program from module load.  The only call of _play_next that does not
\* come from after_playback is the one in add_track (line 139), which waits
\* for the lock add_track holds: from Init no stream is ever started and the
\* lock is never handed over, so no run of NextRun is ever enabled
\* (RunDisabled is an invariant of Spec) and Spec has the behaviours of
\* Init /\ [][Next]_vars.
Spec == Init /\ [][NextCmd]_vars
RunDisabled == ~ENABLED NextRun

\* The event loop runs every task whose await has completed, and the calls
\* into the voice gateway and yt-dlp (channel.connect, move_to, disconnect,
\* extract_info) return or raise: a task that can go on does go on.  Nothing
\* obliges a user to send a further command.
Continue(t) ==
    \/ \E ch \in Channels : ConnectDone(t, ch)
    \/ MoveDone(t)
    \/ ExtractFails(t)
    \/ \E info \in Infos : AddTrack(t, info) \/ AddTrackWait(t, info) \/ AddTrackResume(t, info)
    \/ StopDone(t)
    \/ PrevResume(t)
    \/ PlayNextResume(t)
LiveSpec == Init /\ [][NextCmd]_vars /\ \A t \in Tasks : WF_vars(Continue(t))

\* A controller as lines 144-158 leave it: entry c of a non-empty queue handed
\* to voice_client.play(), the lock released.  Started examines the handlers
\* from there; these states lie behind the blocked call of line 139 and are
\* not reached by Spec.
InitStarted ==
    /\ players = 1
    /\ \E n \in 1..MaxQueue : \E q \in [1..n -> Infos] : \E c \in 0..(n - 1) :
        /\ queue = [p \in Ctl |-> IF p = 1 THEN [k \in 1..n |-> Entry(q[k])] ELSE <<>>]
        /\ current_index = [p \in Ctl |-> IF p = 1 THEN c ELSE -1]
    /\ voice_client = [p \in Ctl |-> IF p = 1 THEN [NewVC("a") EXCEPT !.st = "playing"] ELSE NoVC]
    /\ lock_holder = [p \in Ctl |-> 0]
    /\ lock_waiters = [p \in Ctl |-> <<>>]
    /\ pending = [p \in Ctl |-> 0]
    /\ pc = [t \in Tasks |-> "idle"]
    /\ tp = [t \in Tasks |-> 0]
    /\ tch = [t \in Tasks |-> "none"]
    /\ ev = NoEv

Started == InitStarted /\ [][Next]_vars

\* ---------------------------------------------------------------- typing
TypeOK ==
    /\ players \in 0..MaxPlayers
    /\ \A p \in Ctl :
        /\ Len(queue[p]) <= MaxQueue
        /\ current_index[p] \in -2..(MaxQueue + 1)
        /\ voice_client[p].st \in {"idle", "playing", "paused"}
        /\ lock_holder[p] \in 0..MaxTasks
        /\ pending[p] \in 0..MaxTasks

\* ---------------------------------------------------------------- properties
\* the controller's playback state: entries, cursor, connection
PlaybackState(p) == <<queue[p], current_index[p], voice_client[p].some, voice_client[p].connected>>
Stopped(p) == queue[p] = <<>> /\ current_index[p] = -1 /\ voice_client[p] = NoVC
Streaming(v) == v.st \in {"playing", "paused"}
\* the step is a run of op on controller p that got into its critical section
Ran(op, p) == ev'.op = op /\ ev'.p = p /\ ev'.res # "waiting"

\* C1: on a connected controller with an empty queue, cursor -1 and an idle
\* transport, add_track appends the track and completes with cursor 0, entry 0
\* handed to the transport and the transport playing.
C1_AddTrackOnIdleStartsEntry0 ==
    [][\A p \in Ctl :
        (/\ Ran("AddTrack", p)
         /\ queue[p] = <<>>
         /\ current_index[p] = -1
         /\ voice_client[p].some
         /\ is_connected(voice_client[p])
         /\ voice_client[p].st = "idle")
        => (/\ Len(queue'[p]) = 1
            /\ current_index'[p] = 0
            /\ ev'.start = 0
            /\ ev'.res = "ok"
            /\ is_playing(voice_client'[p]))]_vars

StopBegun(p) ==
    \/ \E t \in Tasks : pc[t] = "leave_stop" /\ tp[t] = p
    \/ players # p
C4_ExhaustedQueueStops ==
    [][\A p \in Ctl :
        /\ (Ran("PlayNext", p) /\ current_index[p] = Len(queue[p]) - 1)
           => (/\ ev'.start = -1
               /\ ~is_connected(voice_client'[p])
               /\ \/ ev'.res = "suspended" /\ current_index'[p] = Len(queue'[p])
                  \/ ev'.res = "stopped" /\ Stopped(p)')
        /\ (Ran("Stop", p) /\ ev'.res = "exhausted") => Stopped(p)'
        /\ (ev'.p = p /\ ev'.start # -1)
           => (/\ ev'.start = current_index'[p]
               /\ 0 <= ev'.start
               /\ ev'.start < Len(queue'[p]))]_vars
C4_Witness ==
    /\ ev.op = "Stop"
    /\ ev.res = "exhausted"
    /\ ev.p = players
    /\ Stopped(ev.p)

\* C5: no run of add_track, _play_next, previous or stop changes the playback
\* state of a controller while another task is suspended in the middle of
\* such an operation on it.
MidOp(t, p) == tp[t] = p /\ pc[t] \in {"add_pn", "pn_stop", "leave_stop"}
C5_OneMutationInFlight ==
    [][\A p \in Ctl :
        (/\ ev'.op \in {"AddTrack", "PlayNext", "Previous", "Stop", "Leave"}
         /\ ev'.p = p
         /\ PlaybackState(p)' # PlaybackState(p))
        => ~(\E t \in Tasks : MidOp(t, p) /\ pc'[t] = pc[t])]_vars

\* C6: previous with cursor c > 0 on a streaming transport is accepted, sets
\* the cursor to c - 2 and stops the stream (one completion signal); the
\* _play_next of that signal, run next, moves the cursor to c - 1 and starts
\* that entry.
C6_PreviousMovesBackOne ==
    [][\A p \in Ctl :
        /\ (Ran("Previous", p) /\ current_index[p] > 0 /\ Streaming(voice_client[p]))
           => (/\ ev'.res = "accepted"
               /\ ev'.stop
               /\ current_index'[p] = current_index[p] - 2
               /\ voice_client'[p] = [voice_client[p] EXCEPT !.st = "idle"]
               /\ pending'[p] = pending[p] + 1
               /\ queue'[p] = queue[p])
        /\ (/\ ev.op = "Previous" /\ ev.res = "accepted" /\ ev.p = p
            /\ is_connected(voice_client[p])
            /\ Ran("PlayNext", p))
           => (/\ current_index'[p] = current_index[p] + 1
               /\ ev'.start = current_index'[p]
               /\ is_playing(voice_client'[p]))]_vars
C6_Witness ==
    /\ ev.op = "Previous"
    /\ ev.res = "accepted"
    /\ ev.stop
    /\ current_index[ev.p] = 0
    /\ pending[ev.p] = 1

\* C7: previous with cursor <= 0 is rejected and changes neither the entries,
\* the cursor nor the voice client (connection and transport status); no stop
\* is issued.
C7_PreviousRejected ==
    [][\A p \in Ctl :
        (Ran("Previous", p) /\ current_index[p] <= 0)
        => (/\ ev'.res = "rejected"
            /\ ~ev'.stop
            /\ queue'[p] = queue[p]
            /\ current_index'[p] = current_index[p]
            /\ voice_client'[p] = voice_client[p]
            /\ pending'[p] = pending[p])]_vars
C7_Witness ==
    /\ ev.op = "Previous"
    /\ ev.res = "rejected"
    /\ current_index[ev.p] = 0
    /\ is_playing(voice_client[ev.p])

Outstanding(p) ==
    (IF Streaming(voice_client[p]) THEN 1 ELSE 0) + pending[p]
        + Cardinality({t \in Tasks : pc[t] = "pn_wait" /\ tp[t] = p})
C9_SkipAdvancesOnce ==
    [][\A p \in Ctl :
        /\ (ev'.op = "Skip" /\ ev'.p = p)
           => (/\ current_index' = current_index
               /\ queue' = queue
               /\ pc' = pc
               /\ lock_holder' = lock_holder
               /\ lock_waiters' = lock_waiters
               /\ ev'.start = -1)
        /\ (ev'.op = "Skip" /\ ev'.p = p /\ ev'.res = "accepted")
           => (/\ Streaming(voice_client[p])
               /\ voice_client'[p].st = "idle"
               /\ pending'[p] = pending[p] + 1)
        /\ Outstanding(p)' <= 1
        /\ (ev.op = "Skip" /\ ev.res = "accepted" /\ ev.p = p /\ Ran("PlayNext", p))
           => (/\ current_index'[p] = current_index[p] + 1
               /\ ev'.start = current_index'[p])]_vars
C9_Witness ==
    /\ ev.op = "Skip"
    /\ ev.res = "accepted"
    /\ pending[ev.p] = 1
    /\ current_index[ev.p] + 1 < Len(queue[ev.p])

\* C10: add_track on a streaming transport appends one entry at the end and
\* changes nothing else: cursor, voice client and pending signals stay, no
\* stream is started or stopped.
C10_AddTrackWhileStreaming ==
    [][\A p \in Ctl :
        (Ran("AddTrack", p) /\ Streaming(voice_client[p]))
        => (/\ \E info \in Infos : queue'[p] = Append(queue[p], Entry(info))
            /\ current_index' = current_index
            /\ voice_client' = voice_client
            /\ pending' = pending
            /\ players' = players
            /\ ev'.res = "ok"
            /\ ev'.start = -1
            /\ ~ev'.stop)]_vars
C10_Witness ==
    /\ ev.op = "AddTrack"
    /\ ev.res = "ok"
    /\ Streaming(voice_client[ev.p])
    /\ Len(queue[ev.p]) >= 2
    /\ current_index[ev.p] = 0

\* C11: every stop() that returns (from leave, or from _play_next with or
\* without a disconnect) leaves its controller with no entries, cursor -1
\* and no voice client, raising nothing; run on a controller that is already
\* in that state it changes none of the three (stop; stop = stop).
StopRan(p) ==
    /\ ev'.p = p
    /\ \/ ev'.op = "Stop"
       \/ ev'.op = "PlayNext" /\ ev'.res = "stopped"
C11_StopIdempotent ==
    [][\A p \in Ctl :
        /\ StopRan(p) => (Stopped(p)' /\ ev'.res # "error")
        /\ (StopRan(p) /\ Stopped(p))
           => (/\ queue'[p] = queue[p]
               /\ current_index'[p] = current_index[p]
               /\ voice_client'[p] = voice_client[p])]_vars
C11_Witness ==
    /\ ev.op = "PlayNext"
    /\ ev.res = "stopped"
    /\ players # ev.p
    /\ Stopped(ev.p)

\* C12: connect(ch), called by join or play, returns at once and changes
\* nothing when the voice client is connected to ch; suspends in move_to(ch)
\* when it is connected to another channel, and the move, when it succeeds,
\* changes only the channel of that client; suspends in channel.connect()
\* otherwise, and the connect, when it succeeds, stores a new connected
\* client; a move or connect that is refused ends the command with the error
\* and leaves every queue, cursor and voice client as it was.
Connected(v) == v.some /\ is_connected(v)
C12_ConnectNoopMoveCreate ==
    [][/\ \A t \in Tasks, ch \in Channels :
            (JoinCmd(t, ch) \/ PlayCmd(t, ch))
            => (/\ queue'[players'] = (IF players = 0 THEN <<>> ELSE queue[players])
                /\ current_index'[players'] = (IF players = 0 THEN -1 ELSE current_index[players])
                /\ voice_client'[players'] = FoundVC
                /\ IF Connected(FoundVC) /\ FoundVC.channel = ch
                   THEN ev'.res = "noop" /\ pc'[t] \in {"idle", "play_extract"}
                   ELSE IF Connected(FoundVC)
                   THEN pc'[t] \in {"join_move", "play_move"} /\ tch'[t] = ch
                   ELSE pc'[t] \in {"join_connect", "play_connect"})
       /\ \A t \in Tasks :
            (MoveDone(t) /\ ev'.res = "ok" /\ Connected(voice_client[tp[t]]))
            => voice_client'[tp[t]] = [voice_client[tp[t]] EXCEPT !.channel = tch[t]]
       /\ \A t \in Tasks, ch \in Channels :
            (ConnectDone(t, ch) /\ ev'.res = "ok")
            => (/\ Connected(voice_client'[tp[t]])
                /\ voice_client'[tp[t]].channel = ch)
       /\ (ev'.op = "Connect" /\ ev'.res \in {"ok", "error"})
            => queue' = queue /\ current_index' = current_index
       /\ (ev'.op = "Connect" /\ ev'.res = "error")
            => (/\ voice_client' = voice_client
                /\ \E t \in Tasks : pc[t] # "idle" /\ pc'[t] = "idle")]_vars
C12_Witness ==
    /\ ev.op = "Connect"
    /\ ev.res = "error"
    /\ Connected(voice_client[ev.p])
    /\ players = ev.p

\* C13: pause with the transport not playing, resume with it not paused,
\* skip with it neither playing nor paused, and the skip command with
\* cursor + 1 >= len(queue), change no queue, cursor, voice client or pending
\* signal and end with a plain reply; pause on a playing transport and resume
\* on a paused one change the transport status and nothing else.
TransportOp == {"Pause", "Resume", "Skip"}
Untouched == UNCHANGED <<players, queue, current_index, voice_client, pending,
                         lock_holder, lock_waiters, pc, tp, tch>>
C13_InvalidRequestsAreNoops ==
    [][/\ ev'.op \in TransportOp
            => (queue' = queue /\ current_index' = current_index)
       /\ (ev'.op \in TransportOp /\ ev'.p = 0) => Untouched
       /\ \A p \in Ctl :
            LET v == voice_client[p] IN
            /\ (ev'.op = "Pause" /\ ev'.p = p /\ ~is_playing(v))
               => (Untouched /\ ev'.res \in {"noop", "notconnected"})
            /\ (ev'.op = "Resume" /\ ev'.p = p /\ ~is_paused(v))
               => (Untouched /\ ev'.res \in {"noop", "notconnected"})
            /\ (ev'.op = "Skip" /\ ev'.p = p /\ ~Streaming(v))
               => (Untouched /\ ev'.res \in {"noop", "notconnected", "rejected"})
            /\ (ev'.op = "Skip" /\ ev'.p = p /\ current_index[p] + 1 >= Len(queue[p]))
               => (Untouched /\ ev'.res \in {"notconnected", "rejected"})
            /\ (ev'.op = "Pause" /\ ev'.p = p /\ is_playing(v))
               => (/\ voice_client' = [voice_client EXCEPT ![p].st = "paused"]
                   /\ UNCHANGED <<players, queue, current_index, pending,
                                  lock_holder, lock_waiters, pc, tp, tch>>)
            /\ (ev'.op = "Resume" /\ ev'.p = p /\ is_paused(v))
               => (/\ voice_client' = [voice_client EXCEPT ![p].st = "playing"]
                   /\ UNCHANGED <<players, queue, current_index, pending,
                                  lock_holder, lock_waiters, pc, tp, tch>>)]_vars
C13_Witness ==
    /\ ev.op = "Skip"
    /\ ev.res = "rejected"
    /\ Streaming(voice_client[ev.p])
    /\ current_index[ev.p] + 1 = Len(queue[ev.p])

\* C14: in every step the queue of a controller is left alone, gets one
\* entry appended at its end, or is emptied; and a cursor that changes moves
\* by -2 in a run of previous, to -1 in a run of stop, and by +1 otherwise.
\* (The step that constructs a MusicPlayer makes a new object.)
Constructed(p) == players = 0 /\ players' = p
C14_AppendOrClearCursorSteps ==
    [][\A p \in Ctl :
        ~Constructed(p)
        => (/\ \/ queue'[p] = queue[p]
               \/ \E info \in Infos : queue'[p] = Append(queue[p], Entry(info))
               \/ queue'[p] = <<>>
            /\ current_index'[p] # current_index[p]
               => \/ /\ ev'.op = "Previous" /\ ev'.p = p
                     /\ current_index'[p] = current_index[p] - 2
                  \/ StopRan(p) /\ current_index'[p] = -1
                  \/ /\ ev'.op = "PlayNext" /\ ev'.p = p
                     /\ current_index'[p] = current_index[p] + 1)]_vars
C14_Witness ==
    /\ ev.op = "PlayNext"
    /\ ev.res = "ok"
    /\ ev.start >= 1
    /\ ev.start = current_index[ev.p]

\* C15: get_player returns the registered controller when there is one and
\* otherwise registers a new one with no entries, cursor -1 and no voice
\* client; and every run of add_track, _play_next, previous or stop works on
\* the controller registered for the guild when the run starts (or registered
\* by the run), never on one that leave has removed.
ControllerOp == {"AddTrack", "PlayNext", "Previous", "Stop"}
C15_OneControllerPerGuild ==
    [][/\ \A t \in Tasks, ch \in Channels :
            (JoinCmd(t, ch) \/ PlayCmd(t, ch))
            => (/\ players' # 0
                /\ tp'[t] \in {0, players'}
                /\ IF players # 0
                   THEN players' = players
                   ELSE /\ queue'[players'] = <<>>
                        /\ current_index'[players'] = -1
                        /\ voice_client'[players'] = NoVC)
       /\ \A p \in Ctl :
            (ev'.op \in ControllerOp /\ ev'.p = p)
            => (players = p \/ players' = p)]_vars

\* C16: format_queue gives the fixed message for an empty queue; otherwise
\* one line per entry, in queue order, numbered from 1, carrying the entry's
\* title, and the marked lines are exactly those whose index is the cursor:
\* one when 0 <= cursor < len(queue), none otherwise.
Marked(r) == {k \in 1..Len(r) : r[k].marker = "-> "}
C16_RenderMarksCursor ==
    \A p \in Ctl :
        LET r == format_queue(p)
            n == Len(queue[p])
            c == current_index[p]
        IN  IF n = 0
            THEN r = EmptyMessage
            ELSE /\ Len(r) = n
                 /\ \A k \in 1..n :
                        /\ r[k].num = k
                        /\ r[k].title = queue[p][k].info
                        /\ r[k].marker \in {"-> ", "   "}
                 /\ Marked(r) = {k \in 1..n : k - 1 = c}
                 /\ Cardinality(Marked(r)) = (IF 0 <= c /\ c < n THEN 1 ELSE 0)
C16_Witness ==
    /\ ev.op = "Queue"
    /\ ev.res = "ok"
    /\ Len(queue[ev.p]) = 3
    /\ current_index[ev.p] = 1
    /\ Marked(format_queue(ev.p)) = {2}

\* C17: voice_client.play() is accepted only in a run of _play_next, on a
\* transport that is neither playing nor paused; a stream, its completion
\* signal and the _play_next scheduled by it are one token (Outstanding),
\* which no step multiplies: a run of _play_next uses up the one token there
\* is and leaves one only when it has started a stream, so no stream is
\* followed by two runs of _play_next before the next start.
C17_SingleStream ==
    [][\A p \in Ctl :
        /\ (ev'.p = p /\ ev'.start # -1)
           => (/\ ev'.op = "PlayNext"
               /\ ~Streaming(voice_client[p])
               /\ is_playing(voice_client'[p]))
        /\ Ran("PlayNext", p)
           => (/\ ~Streaming(voice_client[p])
               /\ Outstanding(p) = 1
               /\ Outstanding(p)' = (IF ev'.start # -1 THEN 1 ELSE 0))
        /\ (~Streaming(voice_client[p]) /\ Streaming(voice_client'[p]))
           => (ev'.p = p /\ ev'.start # -1)
        /\ Outstanding(p)' <= Outstanding(p)]_vars
C17_Witness ==
    /\ ev.op = "PlayNext"
    /\ ev.start # -1
    /\ players = ev.p
    /\ is_playing(voice_client[ev.p])
    /\ Outstanding(ev.p) = 1

\* C18: a task inside add_track, _play_next or previous (waiting for the
\* lock, or holding it) eventually leaves the operation, the lock released.
InLockedOp(t) == pc[t] \in {"add_wait", "add_pn", "pn_wait", "pn_stop", "prev_wait"}
C18_NoLockWaitForever ==
    \A t \in Tasks : InLockedOp(t) ~> ~InLockedOp(t)

\* C19: every run of add_track that gets the lock finds a voice client on
\* its controller, raises nothing, and does not end on a controller with
\* entries, no voice client and cursor -1.
C19_AddTrackNeverFails ==
    [][\A p \in Ctl :
        Ran("AddTrack", p)
        => (/\ voice_client[p].some
            /\ ev'.res # "error"
            /\ ~(/\ queue'[p] # <<>>
                 /\ ~voice_client'[p].some
                 /\ current_index'[p] = -1))]_vars

\* C20: the cursor of a controller is never below -1, whatever the order of
\* previous, skip, stop, add_track and completion signals, a previous issued
\* before the signal of an earlier previous has been handled included.
C20_CursorAtLeastMinusOne ==
    \A p \in Ctl : current_index[p] >= -1
C20_Witness ==
    /\ ev.op = "Previous"
    /\ ev.res = "rejected"
    /\ current_index[ev.p] = -1
    /\ pending[ev.p] = 1
    /\ Len(queue[ev.p]) >= 2

====
